---- MODULE Spec2Model ----
(***************************************************************************)
(* State-machine model of the CHIP-8 interpreter core in src/src/chip8.rs  *)
(* (struct Chip8 and Chip8::execute_cycle with its instruction handlers)   *)
(* and of the key-code latch written by src/src/input.rs::scan_keyboard.   *)
(*                                                                         *)
(* A Rust panic (out-of-range index, arithmetic overflow in a build with   *)
(* overflow checks) aborts the process: status becomes "panicked" and no   *)
(* further step is taken.  Whether integer overflow panics or wraps is a   *)
(* property of the build, fixed for a whole run: overflow_checks.          *)
(***************************************************************************)
EXTENDS Integers, Sequences, FiniteSets, TLC

VARIABLES memory, pc, instr, v, index, stack, sp, dt, st, fb,
          keyboard, status, overflow_checks

vars == <<memory, pc, instr, v, index, stack, sp, dt, st, fb,
          keyboard, status, overflow_checks>>

----------------------------------------------------------------------------
(* Program constants                                                       *)

MemSize == 4096

NumRegs == 16

StackSize == 16

FbSize == 2048

ProgramStart == 512

U8Max == 255

U16Max == 65535

font_set ==
    << 240, 144, 144, 144, 240,
        32,  96,  32,  32, 112,
       240,  16, 240, 128, 240,
       240,  16, 240,  16, 240,
       144, 144, 240,  16,  16,
       240, 128, 240,  16, 240,
       240, 128, 240, 144, 240,
       240,  16,  32,  64,  64,
       240, 144, 240, 144, 240,
       240, 144, 240,  16, 240,
       240, 144, 240, 144, 144,
       224, 144, 224, 144, 224,
       240, 128, 128, 128, 240,
       224, 144, 144, 144, 224,
       240, 128, 240, 128, 240,
       240, 128, 240, 128, 128 >>

----------------------------------------------------------------------------
(* Bounds of the model and the program files it is run on                  *)

\* longest program assembled freely from FreeWords
MaxProgLen == 2

\* operand values loaded into V0 and V1 before an instruction under test
ByteVals == {0, 1, 2, 5, 60, 127, 128, 255}

\* key codes the input collaborator delivers, among the codes 1..15 of
\* input.rs, so that the latch still holding 0 means that none was delivered
KeyCodes == {5}

\* instruction words whose sequencing matters (calls, returns, jumps, loops)
FreeWords ==
    { 238,      \* 00EE RET
      4608,     \* 1200 JP 0x200
      8704,     \* 2200 CALL 0x200
      8708,     \* 2204 CALL 0x204
      24577,    \* 6001 LD V0, 0x01
      28927,    \* 70FF ADD V0, 0xFF
      49151,    \* BFFF JP V0, 0xFFF
      61450 }   \* F00A LD V0, K

\* instructions executed on V0 = a, V1 = b for every a, b in ByteVals
TestWords ==
    { 224,      \* 00E0 CLS
      291,      \* 0123 unrecognised 0NNN
      12348,    \* 303C SE V0, 0x3C
      16444,    \* 403C SNE V0, 0x3C
      20496,    \* 5010 SE V0, V1
      20497,    \* 5011 (low nibble not 0)
      28673,    \* 7001 ADD V0, 0x01
      28927,    \* 70FF ADD V0, 0xFF
      32784,    \* 8010 LD V0, V1
      32785,    \* 8011 OR V0, V1
      32786,    \* 8012 AND V0, V1
      32787,    \* 8013 XOR V0, V1
      32788,    \* 8014 ADD V0, V1
      32789,    \* 8015 SUB V0, V1
      32790,    \* 8016 SHR V0
      32791,    \* 8017 SUBN V0, V1
      32798,    \* 801E SHL V0
      32799,    \* 801F unrecognised 8XYN
      36880,    \* 9010 SNE V0, V1
      36881,    \* 9011 (low nibble not 0)
      45056,    \* B000 JP V0, 0x000
      49155,    \* C003 RND V0, 0x03
      53265,    \* D011 DRW V0, V1, 1
      57502,    \* E09E SKP V0
      57505,    \* E0A1 SKNP V0
      57344,    \* E000 unrecognised EXNN
      61447,    \* F007 LD V0, DT
      61450,    \* F00A LD V0, K
      61461,    \* F015 LD DT, V0
      61464,    \* F018 LD ST, V0
      61470,    \* F01E ADD I, V0
      61481,    \* F029 LD F, V0
      61491,    \* F033 LD B, V0
      61781,    \* F155 LD [I], V1
      61797,    \* F165 LD V1, [I]
      61695 }   \* F0FF unrecognised FXNN

\* instructions a program stores in the last two bytes of memory (0xFFE) and
\* then jumps to
TailWords ==
    { 224,      \* 00E0 CLS
      12288,    \* 3000 SE V0, 0x00
      24577 }   \* 6001 LD V0, 0x01

SeqsUpTo(S, n) == UNION {[1..k -> S] : k \in 1..n}

\* the bytes of a big-endian instruction stream
WordBytes(words) ==
    [i \in 1..(2 * Len(words)) |->
        IF i % 2 = 1 THEN words[(i + 1) \div 2] \div 256
                     ELSE words[i \div 2] % 256]

\* LD V0,hi; LD V1,lo; LD I,0xFFE; LD [I],V1; JP 0xFFE: writes the word w
\* to the top of memory and runs it
TopProgram(w) ==
    <<24576 + (w \div 256), 24832 + (w % 256), 45054, 61781, 8190>>

\* the skip instructions, run while the delay timer counts
SkipWords ==
    { 12348,    \* 303C SE V0, 0x3C
      16444,    \* 403C SNE V0, 0x3C
      20496,    \* 5010 SE V0, V1
      36880 }   \* 9010 SNE V0, V1

\* words no inner match arm of execute_cycle recognises, run while the delay
\* timer counts
StuckWords ==
    { 291,      \* 0123 unrecognised 0NNN
      32799,    \* 801F unrecognised 8XYN
      57344,    \* E000 unrecognised EXNN
      61695 }   \* F0FF unrecognised FXNN

\* values the delay timer is set to before such a word
TimerVals == {0, 1, 2, 5, 60}

\* LD V0,a; LD DT,V0; w: runs the word w with the delay timer at a - 1
TimerProgram(a, w) == <<24576 + a, 61461, w>>

\* instructions run twice in a row on the same operands
PairWords ==
    { 53265 }   \* D011 DRW V0, V1, 1

\* LD V0,a; LD V1,b; w; w
PairProgram(a, b, w) == <<24576 + a, 24832 + b, w, w>>

\* addresses the register round trip stores to: the glyph table, free memory
\* and the last three bytes of memory
RoundTripAddrs == {0, 768, 4093}

\* last register X of the round trip
RoundTripRegs == {0, 1, 2}

\* LD V0,a; LD V1,b; LD V2,0xAA; LD I,addr; LD [I],Vx; LD Vi,0 for i in 0..x;
\* LD I,addr; LD Vx,[I]
RoundTripProgram(a, b, addr, x) ==
    <<24576 + a, 24832 + b, 25258, 40960 + addr, 61525 + 256 * x>>
    \o [i \in 1..(x + 1) |-> 24576 + 256 * (i - 1)]
    \o <<40960 + addr, 61541 + 256 * x>>

\* programs that store and load registers at the glyph table (I = 0) and
\* across the end of memory (I = 0xFFF)
IndexPrograms ==
    { <<61781>>,            \* LD [I], V1
      <<61797>>,            \* LD V1, [I]
      <<45055, 61781>>,     \* LD I, 0xFFF; LD [I], V1
      <<45055, 61797>> }    \* LD I, 0xFFF; LD V1, [I]

\* programs that call subroutines: one call, and a call nested in another
CallPrograms ==
    { <<8708, 4610, 238>>,                \* CALL 0x204; JP 0x202; RET
      <<8708, 4610, 8712, 238, 238>> }    \* ...; CALL 0x208; RET; RET

ProgramFiles ==
    {WordBytes(p) : p \in SeqsUpTo(FreeWords, MaxProgLen)}
    \cup {WordBytes(<<24576 + a, 24832 + b, w>>) :
              a \in ByteVals, b \in ByteVals, w \in TestWords}
    \cup {WordBytes(TopProgram(w)) : w \in TailWords}
    \cup {WordBytes(TimerProgram(a, w)) :
              a \in TimerVals, w \in SkipWords \cup StuckWords}
    \cup {WordBytes(PairProgram(a, b, w)) :
              a \in ByteVals, b \in ByteVals, w \in PairWords}
    \cup {WordBytes(RoundTripProgram(a, b, addr, x)) :
              a \in ByteVals, b \in ByteVals,
              addr \in RoundTripAddrs, x \in RoundTripRegs}
    \cup {WordBytes(p) : p \in CallPrograms \cup IndexPrograms}

----------------------------------------------------------------------------
(* Bit operations on unsigned integers                                     *)

RECURSIVE BitAnd(_, _)
BitAnd(a, b) ==
    IF a = 0 \/ b = 0 THEN 0
    ELSE (a % 2) * (b % 2) + 2 * BitAnd(a \div 2, b \div 2)

RECURSIVE BitOr(_, _)
BitOr(a, b) ==
    IF a = 0 THEN b
    ELSE IF b = 0 THEN a
    ELSE (IF a % 2 = 1 \/ b % 2 = 1 THEN 1 ELSE 0)
         + 2 * BitOr(a \div 2, b \div 2)

RECURSIVE BitXor(_, _)
BitXor(a, b) ==
    IF a = 0 THEN b
    ELSE IF b = 0 THEN a
    ELSE ((a + b) % 2) + 2 * BitXor(a \div 2, b \div 2)

\* operand fields of an instruction word
RegX(w) == BitAnd(w, 3840) \div 256

RegY(w) == BitAnd(w, 240) \div 16

Byte(w) == BitAnd(w, 255)

Addr(w) == BitAnd(w, 4095)

Nib(w) == BitAnd(w, 15)

Opcode(w) == BitAnd(w, 61440)

----------------------------------------------------------------------------
(* The machine as a record, so that handlers are functions of the state    *)

State ==
    [memory |-> memory, pc |-> pc, instr |-> instr, v |-> v,
     index |-> index, stack |-> stack, sp |-> sp, dt |-> dt, st |-> st,
     fb |-> fb, status |-> status]

\* a panic aborts the process
Panic(s) == [s EXCEPT !.status = "panicked"]

\* self.pc += n on a u16
inc_pc(s, n) ==
    IF s.pc + n > U16Max
    THEN IF overflow_checks THEN Panic(s)
         ELSE [s EXCEPT !.pc = (s.pc + n) % (U16Max + 1)]
    ELSE [s EXCEPT !.pc = s.pc + n]

new ==
    [memory |-> [a \in 0..(MemSize - 1) |-> 0],
     pc |-> ProgramStart,
     instr |-> 0,
     v |-> [r \in 0..(NumRegs - 1) |-> 0],
     index |-> 0,
     stack |-> [i \in 0..(StackSize - 1) |-> 0],
     sp |-> 0,
     dt |-> 0,
     st |-> 0,
     fb |-> [i \in 0..(FbSize - 1) |-> 0],
     status |-> "running"]

\* writes the glyph table to memory from address 0 on
load_font_set(mem) ==
    [a \in 0..(MemSize - 1) |->
        IF a < Len(font_set) THEN font_set[a + 1] ELSE mem[a]]

\* the loop of load_program from file byte i on:
\* memory[pc_init] = byte; pc_init += 1
RECURSIVE program_loop(_, _, _, _)
program_loop(mem, pc_init, file, i) ==
    IF i > Len(file) THEN mem
    ELSE program_loop([mem EXCEPT ![pc_init] = file[i]],
                      pc_init + 1, file, i + 1)

\* copies the file's bytes to memory from pc_init (self.pc) on; a file that
\* does not fit indexes memory out of range and the process aborts before the
\* machine runs, so program files are taken among those that fit
load_program(mem, pc_init, file) == program_loop(mem, pc_init, file, 1)

----------------------------------------------------------------------------
(* Instruction handlers, in the order of chip8.rs                          *)

\* 00E0
cls(s) == inc_pc([s EXCEPT !.fb = [i \in 0..(FbSize - 1) |-> 0]], 2)

\* 00EE: reads stack[sp], then decrements the u8 sp
ret(s) ==
    IF s.sp >= StackSize THEN Panic(s)
    ELSE LET s1 == [s EXCEPT !.pc = s.stack[s.sp]]
         IN  IF s.sp = 0
             THEN IF overflow_checks THEN Panic(s1)
                  ELSE [s1 EXCEPT !.sp = U8Max]
             ELSE [s1 EXCEPT !.sp = s.sp - 1]

\* 1NNN
jp_addr(s) == [s EXCEPT !.pc = Addr(s.instr)]

\* 2NNN: increments the u8 sp, then writes stack[sp]
call_addr(s) ==
    IF s.sp + 1 > U8Max /\ overflow_checks THEN Panic(s)
    ELSE LET nsp == (s.sp + 1) % (U8Max + 1)
         IN  IF nsp >= StackSize THEN Panic([s EXCEPT !.sp = nsp])
             ELSE [s EXCEPT !.sp = nsp,
                            !.stack[nsp] = s.pc,
                            !.pc = Addr(s.instr)]

\* 3XNN
se_vx_byte(s) ==
    IF s.v[RegX(s.instr)] = Byte(s.instr) THEN inc_pc(s, 4) ELSE inc_pc(s, 2)

\* 4XNN
sne_vx_byte(s) ==
    IF s.v[RegX(s.instr)] # Byte(s.instr) THEN inc_pc(s, 4) ELSE inc_pc(s, 2)

\* 5XY_
se_vx_vy(s) ==
    IF s.v[RegX(s.instr)] = s.v[RegY(s.instr)]
    THEN inc_pc(s, 4) ELSE inc_pc(s, 2)

\* 6XNN
ld_vx_byte(s) == inc_pc([s EXCEPT !.v[RegX(s.instr)] = Byte(s.instr)], 2)

\* 7XNN: self.v[reg] += byte on a u8
add_vx_byte(s) ==
    LET reg == RegX(s.instr)
        sum == s.v[reg] + Byte(s.instr)
    IN  IF sum > U8Max /\ overflow_checks THEN Panic(s)
        ELSE inc_pc([s EXCEPT !.v[reg] = sum % (U8Max + 1)], 2)

\* 8XY0
ld_vx_vy(s) ==
    inc_pc([s EXCEPT !.v[RegX(s.instr)] = s.v[RegY(s.instr)]], 2)

\* 8XY1
or_vx_vy(s) ==
    LET reg_x == RegX(s.instr)
        reg_y == RegY(s.instr)
    IN  inc_pc([s EXCEPT !.v[reg_x] = BitOr(s.v[reg_x], s.v[reg_y])], 2)

\* 8XY2
and_vx_vy(s) ==
    LET reg_x == RegX(s.instr)
        reg_y == RegY(s.instr)
    IN  inc_pc([s EXCEPT !.v[reg_x] = BitAnd(s.v[reg_x], s.v[reg_y])], 2)

\* 8XY3
xor_vx_vy(s) ==
    LET reg_x == RegX(s.instr)
        reg_y == RegY(s.instr)
    IN  inc_pc([s EXCEPT !.v[reg_x] = BitXor(s.v[reg_x], s.v[reg_y])], 2)

\* 8XY4: the sum is formed in u16; on carry V[X] is set to 0xFF
add_vx_vy(s) ==
    LET reg_x == RegX(s.instr)
        reg_y == RegY(s.instr)
    IN  IF s.v[reg_x] + s.v[reg_y] > U8Max
        THEN inc_pc([s EXCEPT !.v = [[s.v EXCEPT ![reg_x] = U8Max]
                                         EXCEPT ![15] = 1]], 2)
        ELSE inc_pc([s EXCEPT !.v = [[s.v EXCEPT ![reg_x] =
                                                  s.v[reg_x] + s.v[reg_y]]
                                         EXCEPT ![15] = 0]], 2)

\* 8XY5: the condition subtracts in u8, so it overflows when V[X] < V[Y]
sub_vx_vy(s) ==
    LET reg_x == RegX(s.instr)
        reg_y == RegY(s.instr)
        diff  == s.v[reg_x] - s.v[reg_y]
    IN  IF diff < 0 /\ overflow_checks THEN Panic(s)
        ELSE IF diff % (U8Max + 1) > 0
        THEN inc_pc([s EXCEPT !.v = [[s.v EXCEPT ![reg_x] =
                                                  diff % (U8Max + 1)]
                                         EXCEPT ![15] = 0]], 2)
        ELSE inc_pc([s EXCEPT !.v = [[s.v EXCEPT ![reg_x] =
                                         (s.v[reg_y] - s.v[reg_x])
                                             % (U8Max + 1)]
                                         EXCEPT ![15] = 1]], 2)

\* 8XY6
shr_vx(s) ==
    LET reg_x == RegX(s.instr)
        v1    == [s.v EXCEPT ![15] = BitAnd(s.v[reg_x], 1)]
    IN  inc_pc([s EXCEPT !.v = [v1 EXCEPT ![reg_x] = v1[reg_x] \div 2]], 2)

\* 8XY7: the condition subtracts in u8, so it overflows when V[Y] < V[X]
subn_vx_vy(s) ==
    LET reg_x == RegX(s.instr)
        reg_y == RegY(s.instr)
        diff  == s.v[reg_y] - s.v[reg_x]
    IN  IF diff < 0 /\ overflow_checks THEN Panic(s)
        ELSE IF diff % (U8Max + 1) > 0
        THEN inc_pc([s EXCEPT !.v = [[s.v EXCEPT ![reg_x] =
                                                  diff % (U8Max + 1)]
                                         EXCEPT ![15] = 1]], 2)
        ELSE inc_pc([s EXCEPT !.v = [[s.v EXCEPT ![reg_x] =
                                         (s.v[reg_x] - s.v[reg_y])
                                             % (U8Max + 1)]
                                         EXCEPT ![15] = 0]], 2)

\* 8XYE: V[F] = V[X] & 0x80, then V[X] << 1 (a shift drops the high bit)
shl_vx(s) ==
    LET reg_x == RegX(s.instr)
        v1    == [s.v EXCEPT ![15] = BitAnd(s.v[reg_x], 128)]
    IN  inc_pc([s EXCEPT !.v = [v1 EXCEPT ![reg_x] =
                                    (v1[reg_x] * 2) % (U8Max + 1)]], 2)

\* 9XY_
sne_vx_vy(s) ==
    IF s.v[RegX(s.instr)] # s.v[RegY(s.instr)]
    THEN inc_pc(s, 4) ELSE inc_pc(s, 2)

\* ANNN
ld_index_addr(s) == inc_pc([s EXCEPT !.index = Addr(s.instr)], 2)

\* BNNN
jp_v0_addr(s) == [s EXCEPT !.pc = Addr(s.instr) + s.v[0]]

\* CXNN: one outcome per random byte
rnd_vx_byte(s) ==
    {inc_pc([s EXCEPT !.v[RegX(s.instr)] = BitAnd(rand_byte, Byte(s.instr))],
            2) : rand_byte \in 0..U8Max}

\* DXYN: decodes its operands and advances pc
drw_vx_vy_nib(s) == inc_pc(s, 2)

\* EX9E
skp_vx(s) == inc_pc(s, 2)

\* EXA1
sknp_vx(s) == inc_pc(s, 2)

\* FX07
ld_vx_dt(s) == inc_pc([s EXCEPT !.v[RegX(s.instr)] = s.dt], 2)

\* FX0A
ld_vx_key(s) == inc_pc(s, 2)

\* FX15
ld_dt_vx(s) == inc_pc([s EXCEPT !.dt = s.v[RegX(s.instr)]], 2)

\* FX18
ld_st_vx(s) == inc_pc([s EXCEPT !.st = s.v[RegX(s.instr)]], 2)

\* FX1E: self.index += V[X] on a u16
add_index_vx(s) ==
    LET sum == s.index + s.v[RegX(s.instr)]
    IN  IF sum > U16Max /\ overflow_checks THEN Panic(s)
        ELSE inc_pc([s EXCEPT !.index = sum % (U16Max + 1)], 2)

\* FX29
ld_index_vx_sprite(s) == inc_pc(s, 2)

\* FX33
ld_bcd_vx(s) == inc_pc(s, 2)

\* the loop of FX55 from register i on: memory[index] = V[i]; index += 1
RECURSIVE store_loop(_, _, _)
store_loop(s, i, reg) ==
    IF i > reg THEN s
    ELSE IF s.index >= MemSize THEN Panic(s)
    ELSE store_loop([s EXCEPT !.memory[s.index] = s.v[i],
                              !.index = s.index + 1], i + 1, reg)

\* FX55: after the loop index is incremented once more
ld_index_imm_vx(s) ==
    LET t == store_loop(s, 0, RegX(s.instr))
    IN  IF t.status = "panicked" THEN t
        ELSE inc_pc([t EXCEPT !.index = t.index + 1], 2)

\* the loop of FX65 from register i on: V[i] = memory[index]; index += 1
RECURSIVE load_loop(_, _, _)
load_loop(s, i, reg) ==
    IF i > reg THEN s
    ELSE IF s.index >= MemSize THEN Panic(s)
    ELSE load_loop([s EXCEPT !.v[i] = s.memory[s.index],
                             !.index = s.index + 1], i + 1, reg)

\* FX65 with index incremented before each read instead of after it
ld_vx_index_imm_preinc(s) ==
    LET t == load_loop([s EXCEPT !.index = s.index + 1], 0, RegX(s.instr))
    IN  IF t.status = "panicked" THEN t
        ELSE inc_pc(t, 2)

\* FX65: after the loop index is incremented once more
ld_vx_index_imm(s) ==
    LET t == load_loop(s, 0, RegX(s.instr))
    IN  IF t.status = "panicked" THEN t
        ELSE inc_pc([t EXCEPT !.index = t.index + 1], 2)

----------------------------------------------------------------------------
(* The fetch-decode-execute cycle                                          *)

\* self.instr = memory[pc] << 8 | memory[pc + 1]
fetch(s) ==
    IF s.pc >= MemSize \/ s.pc + 1 >= MemSize THEN Panic(s)
    ELSE [s EXCEPT !.instr = s.memory[s.pc] * 256 + s.memory[s.pc + 1]]

\* the match with every "_" arm advancing pc by 2, as the outer one does
decode_skipping(s) ==
    LET opcode == Opcode(s.instr)
    IN  IF opcode = 0 THEN
            IF s.instr = 224 THEN {cls(s)}
            ELSE IF s.instr = 238 THEN {ret(s)}
            ELSE {inc_pc(s, 2)}
        ELSE IF opcode = 4096 THEN {jp_addr(s)}
        ELSE IF opcode = 8192 THEN {call_addr(s)}
        ELSE IF opcode = 12288 THEN {se_vx_byte(s)}
        ELSE IF opcode = 16384 THEN {sne_vx_byte(s)}
        ELSE IF opcode = 20480 THEN {se_vx_vy(s)}
        ELSE IF opcode = 24576 THEN {ld_vx_byte(s)}
        ELSE IF opcode = 28672 THEN {add_vx_byte(s)}
        ELSE IF opcode = 32768 THEN
            LET n == Nib(s.instr)
            IN  IF n = 0 THEN {ld_vx_vy(s)}
                ELSE IF n = 1 THEN {or_vx_vy(s)}
                ELSE IF n = 2 THEN {and_vx_vy(s)}
                ELSE IF n = 3 THEN {xor_vx_vy(s)}
                ELSE IF n = 4 THEN {add_vx_vy(s)}
                ELSE IF n = 5 THEN {sub_vx_vy(s)}
                ELSE IF n = 6 THEN {shr_vx(s)}
                ELSE IF n = 7 THEN {subn_vx_vy(s)}
                ELSE IF n = 14 THEN {shl_vx(s)}
                ELSE {inc_pc(s, 2)}
        ELSE IF opcode = 36864 THEN {sne_vx_vy(s)}
        ELSE IF opcode = 40960 THEN {ld_index_addr(s)}
        ELSE IF opcode = 45056 THEN {jp_v0_addr(s)}
        ELSE IF opcode = 49152 THEN rnd_vx_byte(s)
        ELSE IF opcode = 53248 THEN {drw_vx_vy_nib(s)}
        ELSE IF opcode = 57344 THEN
            LET b == Byte(s.instr)
            IN  IF b = 158 THEN {skp_vx(s)}
                ELSE IF b = 161 THEN {sknp_vx(s)}
                ELSE {inc_pc(s, 2)}
        ELSE IF opcode = 61440 THEN
            LET b == Byte(s.instr)
            IN  IF b = 7 THEN {ld_vx_dt(s)}
                ELSE IF b = 10 THEN {ld_vx_key(s)}
                ELSE IF b = 21 THEN {ld_dt_vx(s)}
                ELSE IF b = 24 THEN {ld_st_vx(s)}
                ELSE IF b = 30 THEN {add_index_vx(s)}
                ELSE IF b = 41 THEN {ld_index_vx_sprite(s)}
                ELSE IF b = 51 THEN {ld_bcd_vx(s)}
                ELSE IF b = 85 THEN {ld_index_imm_vx(s)}
                ELSE IF b = 101 THEN {ld_vx_index_imm(s)}
                ELSE {inc_pc(s, 2)}
        ELSE {inc_pc(s, 2)}

\* the match on the opcode: the set of states a handler can leave.  An
\* unrecognised word within a family only prints.
decode(s) ==
    LET opcode == Opcode(s.instr)
    IN  IF opcode = 0 THEN
            IF s.instr = 224 THEN {cls(s)}
            ELSE IF s.instr = 238 THEN {ret(s)}
            ELSE {s}
        ELSE IF opcode = 4096 THEN {jp_addr(s)}
        ELSE IF opcode = 8192 THEN {call_addr(s)}
        ELSE IF opcode = 12288 THEN {se_vx_byte(s)}
        ELSE IF opcode = 16384 THEN {sne_vx_byte(s)}
        ELSE IF opcode = 20480 THEN {se_vx_vy(s)}
        ELSE IF opcode = 24576 THEN {ld_vx_byte(s)}
        ELSE IF opcode = 28672 THEN {add_vx_byte(s)}
        ELSE IF opcode = 32768 THEN
            LET n == Nib(s.instr)
            IN  IF n = 0 THEN {ld_vx_vy(s)}
                ELSE IF n = 1 THEN {or_vx_vy(s)}
                ELSE IF n = 2 THEN {and_vx_vy(s)}
                ELSE IF n = 3 THEN {xor_vx_vy(s)}
                ELSE IF n = 4 THEN {add_vx_vy(s)}
                ELSE IF n = 5 THEN {sub_vx_vy(s)}
                ELSE IF n = 6 THEN {shr_vx(s)}
                ELSE IF n = 7 THEN {subn_vx_vy(s)}
                ELSE IF n = 14 THEN {shl_vx(s)}
                ELSE {s}
        ELSE IF opcode = 36864 THEN {sne_vx_vy(s)}
        ELSE IF opcode = 40960 THEN {ld_index_addr(s)}
        ELSE IF opcode = 45056 THEN {jp_v0_addr(s)}
        ELSE IF opcode = 49152 THEN rnd_vx_byte(s)
        ELSE IF opcode = 53248 THEN {drw_vx_vy_nib(s)}
        ELSE IF opcode = 57344 THEN
            LET b == Byte(s.instr)
            IN  IF b = 158 THEN {skp_vx(s)}
                ELSE IF b = 161 THEN {sknp_vx(s)}
                ELSE {s}
        ELSE IF opcode = 61440 THEN
            LET b == Byte(s.instr)
            IN  IF b = 7 THEN {ld_vx_dt(s)}
                ELSE IF b = 10 THEN {ld_vx_key(s)}
                ELSE IF b = 21 THEN {ld_dt_vx(s)}
                ELSE IF b = 24 THEN {ld_st_vx(s)}
                ELSE IF b = 30 THEN {add_index_vx(s)}
                ELSE IF b = 41 THEN {ld_index_vx_sprite(s)}
                ELSE IF b = 51 THEN {ld_bcd_vx(s)}
                ELSE IF b = 85 THEN {ld_index_imm_vx(s)}
                ELSE IF b = 101 THEN {ld_vx_index_imm(s)}
                ELSE {s}
        ELSE {inc_pc(s, 2)}

\* "Update timers" at the end of execute_cycle: only dt
update_timers(s) == IF s.dt > 0 THEN [s EXCEPT !.dt = s.dt - 1] ELSE s

\* the states one execute_cycle call can leave
cycle_outcomes(s) ==
    LET f == fetch(s)
    IN  IF f.status = "panicked" THEN {f}
        ELSE {IF t.status = "panicked" THEN t ELSE update_timers(t) :
                  t \in decode(f)}

----------------------------------------------------------------------------
(* Specification                                                           *)

\* the memory of a new machine after load_font_set
font_memory == load_font_set(new.memory)

\* Chip8::new, load_font_set and load_program as main calls them before
\* its loop, on a program file that fits in memory
Init ==
    /\ overflow_checks \in BOOLEAN
    /\ keyboard = 0
    /\ \E file \in ProgramFiles :
          /\ new.pc + Len(file) <= MemSize
          /\ memory = load_program(font_memory, new.pc, file)
    /\ pc = new.pc
    /\ instr = new.instr
    /\ v = new.v
    /\ index = new.index
    /\ stack = new.stack
    /\ sp = new.sp
    /\ dt = new.dt
    /\ st = new.st
    /\ fb = new.fb
    /\ status = new.status

execute_cycle ==
    /\ status = "running"
    /\ \E t \in cycle_outcomes(State) :
          /\ memory' = t.memory
          /\ pc' = t.pc
          /\ instr' = t.instr
          /\ v' = t.v
          /\ index' = t.index
          /\ stack' = t.stack
          /\ sp' = t.sp
          /\ dt' = t.dt
          /\ st' = t.st
          /\ fb' = t.fb
          /\ status' = t.status
    /\ UNCHANGED <<keyboard, overflow_checks>>

\* a key-down event of a mapped key stores its code
scan_keyboard ==
    /\ status = "running"
    /\ \E code \in KeyCodes : keyboard' = code
    /\ UNCHANGED <<memory, pc, instr, v, index, stack, sp, dt, st, fb,
                   status, overflow_checks>>

Next == execute_cycle \/ scan_keyboard

Spec == Init /\ [][Next]_vars

TypeOK ==
    /\ pc \in 0..U16Max
    /\ instr \in 0..U16Max
    /\ \A r \in 0..(NumRegs - 1) : v[r] \in 0..U8Max
    /\ index \in 0..U16Max
    /\ sp \in 0..U8Max
    /\ dt \in 0..U8Max
    /\ st \in 0..U8Max
    /\ keyboard \in 0..(NumRegs - 1)
    /\ status \in {"running", "panicked"}

----------------------------------------------------------------------------
(* What the next execute_cycle call fetches                                *)

CanFetch == status = "running" /\ pc + 1 < MemSize

Fetched == memory[pc] * 256 + memory[pc + 1]

\* the instruction word stored at address a
WordAt(a) == memory[a] * 256 + memory[a + 1]

\* the word at pc is 8XYn
FetchesAlu(n) == CanFetch /\ Opcode(Fetched) = 32768 /\ Nib(Fetched) = n

\* the word at pc is FXnn
FetchesF(nn) == CanFetch /\ Opcode(Fetched) = 61440 /\ Byte(Fetched) = nn

\* the word at pc is one of SE Vx,NN / SNE Vx,NN / SE Vx,Vy / SNE Vx,Vy
FetchesSkip ==
    /\ CanFetch
    /\ \/ Opcode(Fetched) \in {12288, 16384}
       \/ Opcode(Fetched) \in {20480, 36864} /\ Nib(Fetched) = 0

\* the predicate of the skip instruction w on the registers
SkipPredicate(w) ==
    IF Opcode(w) = 12288 THEN v[RegX(w)] = Byte(w)
    ELSE IF Opcode(w) = 16384 THEN v[RegX(w)] # Byte(w)
    ELSE IF Opcode(w) = 20480 THEN v[RegX(w)] = v[RegY(w)]
    ELSE v[RegX(w)] # v[RegY(w)]

\* no key-down event has been delivered yet
NoKeyDelivered == keyboard \notin KeyCodes

\* the word w falls to a "_" arm of an inner match of execute_cycle
\* ("Unrecognized instruction")
Unrecognised(w) ==
    \/ Opcode(w) = 0 /\ w \notin {224, 238}
    \/ Opcode(w) = 32768 /\ Nib(w) \notin {0, 1, 2, 3, 4, 5, 6, 7, 14}
    \/ Opcode(w) = 57344 /\ Byte(w) \notin {158, 161}
    \/ Opcode(w) = 61440 /\ Byte(w) \notin {7, 10, 21, 24, 30, 41, 51, 85, 101}

\* what execute_cycle returns to its caller after fetching the word w: it is
\* declared without a return type, so the unit value whatever the word
cycle_result(w) == "unit"

\* the machine has run RoundTripProgram(a, b, addr, x) to its end, a and b
\* being the operand bytes of its first two instructions
RoundTripEnd(addr, x) ==
    /\ status = "running"
    /\ pc = ProgramStart + 2 * (8 + x)
    /\ instr = 61541 + 256 * x
    /\ LET prog == WordBytes(RoundTripProgram(memory[ProgramStart + 1],
                                              memory[ProgramStart + 3],
                                              addr, x))
       IN  \A i \in 1..Len(prog) : memory[ProgramStart + i - 1] = prog[i]

\* the key with code k is down: its key-down event was the last delivered
\* (input.rs handles no key-up event)
KeyDown(k) == keyboard \in KeyCodes /\ keyboard = k

\* the opcodes the outer match of execute_cycle has an arm for
HandledOpcodes == {4096 * k : k \in 0..15}

\* the 16-bit words that reach the outer "_" arm ("Unrecognized opcode")
DefaultArmWords == {w \in 0..U16Max : Opcode(w) \notin HandledOpcodes}

\* one timer tick on a timer value
Ticked(t) == IF t > 0 THEN t - 1 ELSE 0

----------------------------------------------------------------------------
(* Properties                                                              *)

\* C1: in every state reached by execute_cycle calls that returned (the
\* process has not aborted), PC is a memory address: PC < 4096.
C1_PcBelowMemSize == status = "running" => pc < MemSize

\* C2: a cycle that fetches LD Vx,K while no key-down event has been
\* delivered suspends the engine: it leaves PC, all V registers, I, the stack
\* and the framebuffer unchanged, however often it is repeated.
C2_LdVxKeyWaits ==
    [][(execute_cycle /\ FetchesF(10) /\ NoKeyDelivered)
          => (/\ pc' = pc
              /\ v' = v
              /\ index' = index
              /\ stack' = stack
              /\ sp' = sp
              /\ fb' = fb)]_vars

\* C3: PC moves past an LD Vx,K only because a key-down event was delivered:
\* the cycle that resumes sets V[X] to the delivered code and advances PC by
\* exactly 2.
C3_KeyResumesWait ==
    [][(execute_cycle /\ FetchesF(10) /\ pc' # pc)
          => (/\ ~NoKeyDelivered
              /\ v'[RegX(Fetched)] = keyboard
              /\ pc' = pc + 2)]_vars

\* C4: a cycle executing any instruction other than LD DT,Vx leaves the
\* delay timer unchanged (only tick_timers decrements it).
C4_CycleKeepsDelay ==
    [][(execute_cycle /\ CanFetch /\ ~FetchesF(21)) => dt' = dt]_vars

\* C5: the timer tick (the timer update of a completed cycle that does not
\* itself load a timer) decrements both delay and sound by one when nonzero
\* and leaves a zero timer at zero.
C5_TickDecrementsBoth ==
    [][(/\ execute_cycle
        /\ CanFetch
        /\ status' = "running"
        /\ ~FetchesF(21)
        /\ ~FetchesF(24))
          => (dt' = Ticked(dt) /\ st' = Ticked(st))]_vars

\* C6: ADD Vx,Vy wraps: V[F] = 1 if V[X] + V[Y] > 255 else 0,
\* V[X] = (V[X] + V[Y]) mod 256, PC advances by 2.
C6_AddVxVyWraps ==
    [][(execute_cycle /\ FetchesAlu(4))
          => LET x   == RegX(Fetched)
                 sum == v[x] + v[RegY(Fetched)]
             IN  /\ status' = "running"
                 /\ v'[15] = (IF sum > U8Max THEN 1 ELSE 0)
                 /\ (x # 15 => v'[x] = sum % 256)
                 /\ pc' = pc + 2]_vars

\* C7: SUB Vx,Vy: V[F] = 1 if V[X] >= V[Y] else 0, V[X] = (V[X] - V[Y])
\* mod 256, without fault for every operand pair, PC advances by 2.
C7_SubVxVy ==
    [][(execute_cycle /\ FetchesAlu(5))
          => LET x == RegX(Fetched)
                 y == RegY(Fetched)
             IN  /\ status' = "running"
                 /\ v'[15] = (IF v[x] >= v[y] THEN 1 ELSE 0)
                 /\ (x # 15 => v'[x] = (v[x] - v[y]) % 256)
                 /\ pc' = pc + 2]_vars

\* C8: SUBN Vx,Vy: V[F] = 1 if V[Y] >= V[X] else 0, V[X] = (V[Y] - V[X])
\* mod 256, without fault for every operand pair, PC advances by 2.
C8_SubnVxVy ==
    [][(execute_cycle /\ FetchesAlu(7))
          => LET x == RegX(Fetched)
                 y == RegY(Fetched)
             IN  /\ status' = "running"
                 /\ v'[15] = (IF v[y] >= v[x] THEN 1 ELSE 0)
                 /\ (x # 15 => v'[x] = (v[y] - v[x]) % 256)
                 /\ pc' = pc + 2]_vars

\* C9: SHL Vx: V[F] is the former most significant bit of V[X] as 0 or 1,
\* V[X] = (V[X] * 2) mod 256, PC advances by 2.
C9_ShlVx ==
    [][(execute_cycle /\ FetchesAlu(14))
          => LET x == RegX(Fetched)
             IN  /\ status' = "running"
                 /\ v'[15] = (v[x] \div 128) % 2
                 /\ (x # 15 => v'[x] = (v[x] * 2) % 256)
                 /\ pc' = pc + 2]_vars

\* C10: ADD Vx,NN: V[X] = (V[X] + NN) mod 256 without fault on overflow,
\* V[F] is not written as a flag, PC advances by 2.
C10_AddVxByteWraps ==
    [][(execute_cycle /\ CanFetch /\ Opcode(Fetched) = 28672)
          => LET x == RegX(Fetched)
             IN  /\ status' = "running"
                 /\ v'[x] = (v[x] + Byte(Fetched)) % 256
                 /\ (x # 15 => v'[15] = v[15])
                 /\ pc' = pc + 2]_vars

\* C11: a cycle executing SE Vx,NN, SNE Vx,NN, SE Vx,Vy or SNE Vx,Vy advances
\* PC by exactly 4 when its predicate holds and by exactly 2 otherwise, and
\* changes no register, memory, stack or timer value.
C11_SkipChangesOnlyPc ==
    [][(execute_cycle /\ FetchesSkip)
          => (/\ pc' = pc + (IF SkipPredicate(Fetched) THEN 4 ELSE 2)
              /\ v' = v
              /\ index' = index
              /\ memory' = memory
              /\ stack' = stack
              /\ sp' = sp
              /\ dt' = dt
              /\ st' = st)]_vars

\* C12: SKP Vx advances PC by 4 when key V[X] is down and by 2 otherwise,
\* SKNP Vx advances PC by 4 when key V[X] is up and by 2 otherwise; neither
\* changes the keypad.
C12_KeySkips ==
    [][(/\ execute_cycle
        /\ CanFetch
        /\ Opcode(Fetched) = 57344
        /\ Byte(Fetched) \in {158, 161})
          => (/\ pc' = pc + (IF (Byte(Fetched) = 158)
                                    = KeyDown(v[RegX(Fetched)])
                             THEN 4 ELSE 2)
              /\ keyboard' = keyboard)]_vars

\* C13: a CALL executed with fewer than 16 return addresses on the stack
\* succeeds: it stores PC, increments SP (so that SP reaches 16) and jumps;
\* a CALL executed when SP = 16 fails without aborting and without changing
\* PC, SP or the stack; SP stays within [0,16].
C13_CallStackDepth ==
    [][(execute_cycle /\ CanFetch /\ Opcode(Fetched) = 8192)
          => (/\ status' = "running"
              /\ sp' \in 0..StackSize
              /\ IF sp < StackSize
                 THEN /\ sp' = sp + 1
                      /\ pc' = Addr(Fetched)
                      /\ \E i \in 0..(StackSize - 1) : stack'[i] = pc
                 ELSE /\ pc' = pc
                      /\ sp' = sp
                      /\ stack' = stack)]_vars

\* C14: RET executed with an empty stack (SP = 0) fails without aborting: it
\* is reported as an error, PC is not set from a stack slot and SP stays 0.
C14_RetOnEmptyStack ==
    [][(execute_cycle /\ CanFetch /\ Fetched = 238 /\ sp = 0)
          => (/\ status' = "running"
              /\ pc' = pc
              /\ sp' = 0)]_vars

\* C15: a cycle that fetches a word matching no known encoding returns a
\* result distinct from that of a recognised instruction (here CLS), and
\* changes no register, memory, stack, timer or framebuffer state, PC
\* included (advancing it is left to the driver).
C15_InvalidOpcodeReported ==
    [][(execute_cycle /\ CanFetch /\ Unrecognised(Fetched))
          => (/\ cycle_result(Fetched) # cycle_result(224)
              /\ pc' = pc
              /\ v' = v
              /\ index' = index
              /\ memory' = memory
              /\ stack' = stack
              /\ sp' = sp
              /\ dt' = dt
              /\ st' = st
              /\ fb' = fb)]_vars

\* C16: a cycle whose fetch would read PC or PC + 1 >= 4096, or whose
\* LD [I],Vx / LD Vx,[I] would access I + i >= 4096, reports the fault to its
\* caller instead of aborting the process, and accesses no memory cell.
C16_MemoryFaultReported ==
    [][(/\ execute_cycle
        /\ \/ pc + 1 >= MemSize
           \/ /\ (FetchesF(85) \/ FetchesF(101))
              /\ index + RegX(Fetched) >= MemSize)
          => (status' = "running" /\ memory' = memory /\ v' = v)]_vars

\* C17: register store/load round trip: with V0 = a, V1 = b, V2 = 0xAA and
\* the other registers 0, executing LD [I],Vx, zeroing V[0..=X], resetting I
\* and executing LD Vx,[I] restores V[0..=X] to their original values and
\* leaves V[X+1..15] unchanged.
C17_RoundTrip ==
    \A addr \in RoundTripAddrs, x \in RoundTripRegs :
        RoundTripEnd(addr, x)
            => v = [r \in 0..(NumRegs - 1) |->
                       IF r = 0 THEN memory[ProgramStart + 1]
                       ELSE IF r = 1 THEN memory[ProgramStart + 3]
                       ELSE IF r = 2 THEN 170
                       ELSE 0]

\* a round trip of three registers with distinct nonzero values, stored to
\* the last three bytes of memory, has completed
C17_Witness ==
    /\ RoundTripEnd(4093, 2)
    /\ memory[ProgramStart + 1] = 255
    /\ memory[ProgramStart + 3] = 1
    /\ v[0] = 255
    /\ v[1] = 1
    /\ v[2] = 170

\* C18: LD [I],Vx and LD Vx,[I] within memory leave I unchanged; the store
\* writes exactly the cells mem[I..I+X] from V[0..X], the load writes exactly
\* the registers V[0..X] from mem[I..I+X].
C18_IndexUnchanged ==
    [][(/\ execute_cycle
        /\ (FetchesF(85) \/ FetchesF(101))
        /\ index + RegX(Fetched) < MemSize)
          => LET x == RegX(Fetched)
             IN  /\ index' = index
                 /\ IF Byte(Fetched) = 85
                    THEN /\ v' = v
                         /\ memory' =
                              [a \in 0..(MemSize - 1) |->
                                  IF a >= index /\ a <= index + x
                                  THEN v[a - index] ELSE memory[a]]
                    ELSE /\ memory' = memory
                         /\ v' = [r \in 0..(NumRegs - 1) |->
                                     IF r <= x THEN memory[index + r]
                                     ELSE v[r]]]_vars

\* C19: the second of two identical DRW Vx,Vy,N in a row, of a sprite with at
\* least one set bit, erases what the first drew: it changes the framebuffer
\* back and sets V[F] = 1 (collision).
C19_SecondDrawCollides ==
    [][(/\ execute_cycle
        /\ CanFetch
        /\ Opcode(Fetched) = 53248
        /\ instr = Fetched
        /\ \E i \in 0..(Nib(Fetched) - 1) :
              index + i < MemSize /\ memory[index + i] # 0)
          => (/\ v'[15] = 1
              /\ fb' # fb
              /\ pc' = pc + 2)]_vars

\* C20: LD B,Vx stores the hundreds, tens and ones digits of V[X] at mem[I],
\* mem[I+1] and mem[I+2], leaves I, the V registers and every other memory
\* cell unchanged, and advances PC by 2.
C20_LdBcd ==
    [][(execute_cycle /\ FetchesF(51) /\ index + 2 < MemSize)
          => LET val == v[RegX(Fetched)]
             IN  /\ memory' =
                      [a \in 0..(MemSize - 1) |->
                          IF a = index THEN val \div 100
                          ELSE IF a = index + 1 THEN (val \div 10) % 10
                          ELSE IF a = index + 2 THEN val % 10
                          ELSE memory[a]]
                 /\ index' = index
                 /\ v' = v
                 /\ pc' = pc + 2]_vars

\* C21: a RET that matches a CALL executed at address A (the CALL stored its
\* own address A in the stack slot the RET reads) brings the stack depth back
\* to its value before the CALL and continues at A + 2, not at the CALL
\* again; this holds at every depth, so nested calls return in LIFO order,
\* each to its own call site.
C21_CallRetProgress ==
    [][(/\ execute_cycle
        /\ CanFetch
        /\ Fetched = 238
        /\ sp \in 1..(StackSize - 1)
        /\ stack[sp] + 1 < MemSize
        /\ Opcode(WordAt(stack[sp])) = 8192)
          => (/\ status' = "running"
              /\ sp' = sp - 1
              /\ pc' = stack[sp] + 2)]_vars

\* C22: a word 5XYN or 9XYN with low nibble N # 0 matches no known encoding:
\* the cycle that fetches it takes it as an unrecognised word and does not
\* execute it as SE Vx,Vy or SNE Vx,Vy, that is, does not advance PC by 4 or
\* 2 according to the comparison of V[X] with V[Y].
C22_StrictCompareDecode ==
    [][(/\ execute_cycle
        /\ CanFetch
        /\ Opcode(Fetched) \in {20480, 36864}
        /\ Nib(Fetched) # 0)
          => (/\ Unrecognised(Fetched)
              /\ pc' # pc + (IF SkipPredicate(Fetched) THEN 4 ELSE 2))]_vars

\* C23: once the word at PC is unrecognised within a handled family (0NNN
\* other than 00E0/00EE, 8XYN with N not in 0..7 or E, EXNN other than 9E/A1,
\* FXNN other than 07/0A/15/18/1E/29/33/55/65), every step leaves PC, the
\* registers, memory and the stack unchanged, so the same word is fetched
\* again and PC never changes; an execute_cycle call only counts the delay
\* timer down.  No 16-bit word reaches the default arm of the outer match.
C23_StuckOnUnrecognised ==
    /\ DefaultArmWords = {}
    /\ [][(CanFetch /\ Unrecognised(Fetched))
             => (/\ status' = "running"
                 /\ pc' = pc
                 /\ v' = v
                 /\ index' = index
                 /\ memory' = memory
                 /\ stack' = stack
                 /\ sp' = sp
                 /\ st' = st
                 /\ fb' = fb
                 /\ dt' = (IF execute_cycle THEN Ticked(dt) ELSE dt)
                 /\ CanFetch'
                 /\ Fetched' = Fetched
                 /\ (execute_cycle => instr' = Fetched))]_vars

\* the machine has spent one cycle on the unrecognised word F0FF at 0x204,
\* the delay timer counting down from 4 to 3
C23_Witness ==
    /\ CanFetch
    /\ pc = ProgramStart + 4
    /\ Fetched = 61695
    /\ Unrecognised(Fetched)
    /\ instr = Fetched
    /\ dt = 3

====
